---- MODULE Spec2Model ----
(***************************************************************************)
(* Model of scripts/evaluate_humaneval.py: the sample filter               *)
(* (_filter_bad_samples), the sandbox resolver (_resolve_sandbox_mode) and *)
(* the run orchestrator (main, run_evaluation_mode, evaluate_samples and   *)
(* the tail of generate_samples_for_model), with the helpers _run_cmd and  *)
(* check_version (scripts/validate_ecosystem.py).                          *)
(* Strings are sequences of one-character strings, so that strip(),        *)
(* len(), count(), lower(), sorted() and "in" are computed, not assumed.   *)
(***************************************************************************)
EXTENDS Integers, Sequences, FiniteSets, TLC

VARIABLES
    fs,         \* the file system: path -> list of JSON-lines records
    pc,         \* position of the running process
    frame,      \* locals of the running _filter_bad_samples call
    stdout,     \* what has been printed, one record per print() call
    calls,      \* completed _filter_bad_samples calls, as seen by the caller
    host,       \* what shutil.which("firejail") answers on this host
    probes,     \* number of shutil.which() calls made so far
    resolved,   \* completed _resolve_sandbox_mode calls, as seen by the caller
    argv,       \* the command line main() was started with
    args,       \* the namespace parse_args() returned
    sandbox_mode, \* main's local sandbox_mode
    all_results,  \* main's local all_results
    run,        \* locals of the running run_evaluation_mode call
    events,     \* steps of generation and evaluation, in the order they happen
    exit,       \* how the process ended
    outputs,    \* directories and report files created under output_dir
    commands,   \* completed _run_cmd calls, as seen by the caller
    checked     \* completed check_version calls, as seen by the caller

vars == <<fs, pc, frame, stdout, calls, host, probes, resolved,
          argv, args, sandbox_mode, all_results, run, events, exit, outputs,
          commands, checked>>

filterVars == <<fs, frame, stdout, calls>>
resolverVars == <<host, probes, resolved>>
mainVars == <<argv, args, sandbox_mode, all_results, run, events, exit, outputs>>
utilVars == <<commands, checked>>

---------------------------------------------------------------------------
(* Bounds of the model *)

MaxSamples == 3     \* records in a multi-task sample file
MaxPad == 1         \* leading / trailing whitespace of a boundary completion
MaxBraces == 4      \* '{' and '}' characters of a boundary completion
MaxFill == 10       \* other characters of a boundary completion
MaxRuns == 2        \* calls of _filter_bad_samples in one behaviour
MaxCalls == 2       \* calls of _resolve_sandbox_mode in one behaviour

---------------------------------------------------------------------------
(* Python values *)

None == <<>>                    \* Python None, and an absent optional value
Some(x) == <<x>>

Abs(x) == IF x < 0 THEN -x ELSE x

RECURSIVE Rep(_, _)
Rep(ch, n) == IF n <= 0 THEN <<>> ELSE <<ch>> \o Rep(ch, n - 1)

\* The characters of the model in code-point order: tab, newline and the
\* printable part of ASCII (without double quote, backslash and backquote).
Alphabet ==
    << "\t", "\n", " ", "!", "#", "$", "%", "&", "'", "(", ")", "*",
       "+", ",", "-", ".", "/", "0", "1", "2", "3", "4", "5", "6", "7", "8",
       "9", ":", ";", "<", "=", ">", "?", "@", "A", "B", "C", "D", "E", "F",
       "G", "H", "I", "J", "K", "L", "M", "N", "O", "P", "Q", "R", "S", "T",
       "U", "V", "W", "X", "Y", "Z", "[", "]", "^", "_", "a", "b",
       "c", "d", "e", "f", "g", "h", "i", "j", "k", "l", "m", "n", "o", "p",
       "q", "r", "s", "t", "u", "v", "w", "x", "y", "z", "{", "|", "}", "~" >>

Uppercase ==
    << "A", "B", "C", "D", "E", "F", "G", "H", "I", "J", "K", "L", "M", "N",
       "O", "P", "Q", "R", "S", "T", "U", "V", "W", "X", "Y", "Z" >>

Lowercase ==
    << "a", "b", "c", "d", "e", "f", "g", "h", "i", "j", "k", "l", "m", "n",
       "o", "p", "q", "r", "s", "t", "u", "v", "w", "x", "y", "z" >>

LowerChar(ch) ==
    IF \E i \in 1..Len(Uppercase) : Uppercase[i] = ch
    THEN Lowercase[CHOOSE i \in 1..Len(Uppercase) : Uppercase[i] = ch]
    ELSE ch

\* str.lower()
Lower(s) == [i \in 1..Len(s) |-> LowerChar(s[i])]

\* "needle in hay" for two strings
Contains(hay, needle) ==
    \E i \in 0..(Len(hay) - Len(needle)) :
        SubSeq(hay, i + 1, i + Len(needle)) = needle

Ord(ch) == CHOOSE i \in 1..Len(Alphabet) : Alphabet[i] = ch

\* str.__lt__: lexicographic comparison by code point
RECURSIVE StrLess(_, _)
StrLess(a, b) ==
    IF b = <<>> THEN FALSE
    ELSE IF a = <<>> THEN TRUE
    ELSE IF Head(a) = Head(b) THEN StrLess(Tail(a), Tail(b))
    ELSE Ord(Head(a)) < Ord(Head(b))

Whitespace == {" ", "\t", "\n"}

RECURSIVE LStrip(_)
LStrip(s) ==
    IF s = <<>> THEN s
    ELSE IF Head(s) \in Whitespace THEN LStrip(Tail(s)) ELSE s

RECURSIVE RStrip(_)
RStrip(s) ==
    IF s = <<>> THEN s
    ELSE IF s[Len(s)] \in Whitespace THEN RStrip(SubSeq(s, 1, Len(s) - 1)) ELSE s

\* str.strip()
Strip(s) == RStrip(LStrip(s))

\* str.count(ch) for a one-character ch
Count(s, ch) == Cardinality({i \in 1..Len(s) : s[i] = ch})

\* dict with insertion order: a sequence of <<key, value>> pairs
DictKeys(d) == {d[i][1] : i \in 1..Len(d)}
DictGet(d, k, default) ==
    IF k \in DictKeys(d)
    THEN d[CHOOSE i \in 1..Len(d) : d[i][1] = k][2]
    ELSE default
DictSet(d, k, v) ==
    IF k \in DictKeys(d)
    THEN [i \in 1..Len(d) |-> IF d[i][1] = k THEN <<k, v>> ELSE d[i]]
    ELSE Append(d, <<k, v>>)

\* sorted(keys): ascending by str comparison
RECURSIVE Sorted(_)
Sorted(S) ==
    IF S = {} THEN <<>>
    ELSE LET m == CHOOSE x \in S : \A y \in S \ {x} : StrLess(x, y)
         IN <<m>> \o Sorted(S \ {m})

---------------------------------------------------------------------------
(* _filter_bad_samples *)

MinCompletionLen == 10
MaxBraceDelta == 3

\* "if not completion": the trimmed completion is the empty string
IsEmpty(completion) == Len(completion) = 0

\* [mutant] the length test made inclusive
IsShort_Inclusive(completion) == Len(completion) <= 10

\* "if len(completion) < 10"
IsShort(completion) == Len(completion) < MinCompletionLen

\* "if abs(open_braces - close_braces) > 3"
IsBraceMismatch(completion) ==
    LET open_braces == Count(completion, "{")
        close_braces == Count(completion, "}")
    IN Abs(open_braces - close_braces) > MaxBraceDelta

\* defaultdict(lambda: {"kept": [], "all": [], "filtered_reasons": {}})
NewProblem == [kept |-> <<>>, all |-> <<>>, filtered_reasons |-> <<>>]

Lookup(problem_samples, task_id) ==
    IF task_id \in DOMAIN problem_samples THEN problem_samples[task_id] ELSE NewProblem

Store(problem_samples, task_id, entry) ==
    [t \in DOMAIN problem_samples \cup {task_id} |->
        IF t = task_id THEN entry ELSE problem_samples[t]]

\* the body of one rejecting "if": count the sample under `reason`
Reject(st, task_id, reason) ==
    LET entry == Lookup(st.problem_samples, task_id)
        reasons == entry.filtered_reasons
    IN [st EXCEPT
          !.filtered_count = @ + 1,
          !.problem_samples = Store(@, task_id,
              [entry EXCEPT !.filtered_reasons =
                  DictSet(reasons, reason, DictGet(reasons, reason, 0) + 1)])]

\* [mutant] a kept sample is counted as filtered
Keep_Counted(st, sample) ==
    LET entry == Lookup(st.problem_samples, sample.task_id)
    IN [st EXCEPT
          !.filtered_count = @ + 1,
          !.problem_samples =
              Store(@, sample.task_id, [entry EXCEPT !.kept = Append(@, sample)])]

\* [mutant] the kept record carries the trimmed completion
Keep_Trimmed(st, sample) ==
    LET entry == Lookup(st.problem_samples, sample.task_id)
        trimmed == [sample EXCEPT !.completion = Strip(@)]
    IN [st EXCEPT !.problem_samples =
          Store(@, sample.task_id, [entry EXCEPT !.kept = Append(@, trimmed)])]

\* "problem_samples[task_id]["kept"].append(sample)"
Keep(st, sample) ==
    LET entry == Lookup(st.problem_samples, sample.task_id)
    IN [st EXCEPT !.problem_samples =
          Store(@, sample.task_id, [entry EXCEPT !.kept = Append(@, sample)])]

\* the top of the loop body: count the record and file it under its task
Arrive(st, sample) ==
    LET entry == Lookup(st.problem_samples, sample.task_id)
    IN [st EXCEPT
          !.total_count = @ + 1,
          !.problem_samples =
              Store(@, sample.task_id, [entry EXCEPT !.all = Append(@, sample)])]

\* [mutant] the "continue" of the empty branch is missing
ReadSample_NoContinue(st, sample) ==
    LET task_id == sample.task_id
        completion == Strip(sample.completion)
        st1 == Arrive(st, sample)
        st2 == IF Len(completion) = 0 THEN Reject(st1, task_id, "empty") ELSE st1
    IN IF Len(completion) < 10 THEN Reject(st2, task_id, "short")
       ELSE IF Abs(Count(completion, "{") - Count(completion, "}")) > 3
            THEN Reject(st2, task_id, "braces")
       ELSE Keep(st2, sample)

\* one iteration of the first pass
ReadSample(st, sample) ==
    LET task_id == sample.task_id
        completion == Strip(sample.completion)
        st1 == Arrive(st, sample)
    IN IF IsEmpty(completion) THEN Reject(st1, task_id, "empty")
       ELSE IF IsShort(completion) THEN Reject(st1, task_id, "short")
       ELSE IF IsBraceMismatch(completion) THEN Reject(st1, task_id, "braces")
       ELSE Keep(st1, sample)

RECURSIVE ReadAll(_, _)
ReadAll(st, records) ==
    IF records = <<>> THEN st
    ELSE ReadAll(ReadSample(st, Head(records)), Tail(records))

\* [mutant] no fallback for a task without survivors
TaskRecords_NoBackfill(entry) == entry.kept

\* [mutant] the fallback keeps the task's last sample
TaskRecords_LastSample(entry) ==
    IF Len(entry.kept) = 0
    THEN IF Len(entry.all) > 0 THEN <<entry.all[Len(entry.all)]>> ELSE <<>>
    ELSE entry.kept

\* what the second pass writes for one task
TaskRecords(entry) ==
    IF Len(entry.kept) = 0
    THEN IF Len(entry.all) > 0 THEN <<entry.all[1]>> ELSE <<>>
    ELSE entry.kept

\* what the second pass prints for one task
TaskWarning(task_id, entry) ==
    IF Len(entry.kept) = 0 /\ Len(entry.all) > 0
    THEN << [kind |-> "all_filtered", task_id |-> task_id,
             reasons |-> entry.filtered_reasons] >>
    ELSE <<>>

\* [mutant] sorted(..., reverse=True)
RECURSIVE Reversed(_)
Reversed(q) == IF q = <<>> THEN <<>> ELSE Append(Reversed(Tail(q)), Head(q))
TaskOrder_Descending(problem_samples) == Reversed(Sorted(DOMAIN problem_samples))

\* "for task_id in sorted(problem_samples.keys())"
TaskOrder(problem_samples) == Sorted(DOMAIN problem_samples)

RECURSIVE WriteAll(_, _)
WriteAll(problem_samples, order) ==
    IF order = <<>> THEN <<>>
    ELSE TaskRecords(problem_samples[Head(order)])
            \o WriteAll(problem_samples, Tail(order))

RECURSIVE WarnAll(_, _)
WarnAll(problem_samples, order) ==
    IF order = <<>> THEN <<>>
    ELSE TaskWarning(Head(order), problem_samples[Head(order)])
            \o WarnAll(problem_samples, Tail(order))

\* [mutant] the filtered file is opened with mode="a"
WriteFile_Append(files, path, records) ==
    [p \in DOMAIN files \cup {path} |->
        IF p = path
        THEN (IF p \in DOMAIN files THEN files[p] ELSE <<>>) \o records
        ELSE files[p]]

\* open(path, mode="w") ... write: the file is created or truncated
WriteFile(files, path, records) ==
    [p \in DOMAIN files \cup {path} |-> IF p = path THEN records ELSE files[p]]

\* [mutant] the backfilled record is not counted
FinalTerm_KeptOnly(entry) == Len(entry.kept)

\* one term of the final_count sum
FinalTerm(entry) ==
    IF Len(entry.kept) = 0 /\ Len(entry.all) > 0
    THEN (IF Len(entry.kept) > 1 THEN Len(entry.kept) ELSE 1)
    ELSE Len(entry.kept)

RECURSIVE SumTerms(_, _)
SumTerms(problem_samples, tasks) ==
    IF tasks = {} THEN 0
    ELSE LET t == CHOOSE x \in tasks : TRUE
         IN FinalTerm(problem_samples[t]) + SumTerms(problem_samples, tasks \ {t})

FinalCount(problem_samples) == SumTerms(problem_samples, DOMAIN problem_samples)

\* [mutant] the filtered file is returned unconditionally
FilterReturn_Always(filtered_count, filtered_file, sample_file) == filtered_file

\* "return filtered_file if filtered_count > 0 else sample_file"
FilterReturn(filtered_count, filtered_file, sample_file) ==
    IF filtered_count > 0 THEN filtered_file ELSE sample_file

NoFrame == [at |-> "idle"]

\* no run_evaluation_mode call is running
NoRun == [at |-> "idle"]

\* where _filter_bad_samples returns to: line 806 of evaluate_samples, or the
\* caller that runs the filter on its own
FilterCaller == IF run = NoRun THEN "filter_call" ELSE "evaluate_engine"

\* lines 678-683: the call and its first locals
FilterEnter(sample_file) ==
    /\ pc = "filter_call"
    /\ sample_file \in DOMAIN fs
    /\ frame' = [at |-> "first_pass",
                 sample_file |-> sample_file,
                 filtered_file |-> sample_file \o <<".filtered">>,
                 input |-> fs[sample_file],
                 filtered_count |-> 0,
                 total_count |-> 0,
                 problem_samples |-> << >>,
                 final_count |-> None,
                 printed |-> <<>>]
    /\ pc' = "filter_first_pass"
    /\ UNCHANGED <<utilVars, fs, stdout, calls, resolverVars, mainVars>>

\* lines 685-733: the first pass over the sample file
FilterFirstPass ==
    /\ pc = "filter_first_pass"
    /\ LET st == ReadAll([filtered_count |-> 0, total_count |-> 0,
                          problem_samples |-> << >>], fs[frame.sample_file])
       IN frame' = [frame EXCEPT
                        !.at = "second_pass",
                        !.filtered_count = st.filtered_count,
                        !.total_count = st.total_count,
                        !.problem_samples = st.problem_samples]
    /\ pc' = "filter_second_pass"
    /\ UNCHANGED <<utilVars, fs, stdout, calls, resolverVars, mainVars>>

\* lines 735-757: the second pass writes the filtered file
FilterSecondPass ==
    /\ pc = "filter_second_pass"
    /\ LET order == TaskOrder(frame.problem_samples)
           warnings == WarnAll(frame.problem_samples, order)
       IN /\ fs' = WriteFile(fs, frame.filtered_file,
                             WriteAll(frame.problem_samples, order))
          /\ stdout' = stdout \o warnings
          /\ frame' = [frame EXCEPT !.at = "report",
                                    !.printed = @ \o warnings]
    /\ pc' = "filter_report"
    /\ UNCHANGED <<utilVars, calls, resolverVars, mainVars>>

\* lines 759-775: the progress lines and the return
FilterReport ==
    /\ pc = "filter_report"
    /\ LET lines ==
             IF frame.filtered_count > 0
             THEN << [kind |-> "filtered_out",
                      filtered_count |-> frame.filtered_count,
                      total_count |-> frame.total_count],
                     [kind |-> "evaluating",
                      final_count |-> FinalCount(frame.problem_samples)] >>
             ELSE <<>>
           returned == FilterReturn(frame.filtered_count, frame.filtered_file,
                                    frame.sample_file)
       IN /\ stdout' = stdout \o lines
          /\ calls' = Append(calls,
                [sample_file |-> frame.sample_file,
                 filtered_file |-> frame.filtered_file,
                 input |-> frame.input,
                 returned |-> returned,
                 handed |-> fs[returned],
                 written |-> fs[frame.filtered_file],
                 filtered_count |-> frame.filtered_count,
                 total_count |-> frame.total_count,
                 final_count |-> IF frame.filtered_count > 0
                                 THEN Some(FinalCount(frame.problem_samples))
                                 ELSE None,
                 problem_samples |-> frame.problem_samples,
                 printed |-> frame.printed \o lines])
    /\ frame' = NoFrame
    /\ pc' = FilterCaller
    /\ UNCHANGED <<utilVars, fs, resolverVars, mainVars>>

---------------------------------------------------------------------------
(* The sample files the filter is run on *)

\* main() is not running: its locals keep their first values
NoArgv == [given |-> FALSE]
NoResults == << >>
Running == [status |-> None, exc |-> ""]
MainIdle ==
    /\ argv = NoArgv
    /\ args = None
    /\ sandbox_mode = None
    /\ all_results = NoResults
    /\ run = NoRun
    /\ events = <<>>
    /\ exit = Running
    /\ outputs = {}

\* no helper has been called
UtilIdle ==
    /\ commands = <<>>
    /\ checked = <<>>

SampleFile == <<"samples.jsonl">>

\* two task ids; as strings, "t10" sorts before "t2"
TaskIds == { <<"t", "1", "0">>, <<"t", "2">> }

Body(opens, fill, closes) == Rep("{", opens) \o Rep("x", fill) \o Rep("}", closes)
Padded(lead, body, trail) == Rep(" ", lead) \o body \o Rep("\n", trail)

\* completions of the multi-task files: empty, one character, four unmatched
\* braces, and two different valid ones (the second with surrounding whitespace)
CoreCompletions ==
    { <<>>,
      Body(0, 1, 0),
      Body(4, 6, 0),
      Body(1, 8, 1),
      Padded(1, Body(1, 9, 1), 1) }

\* completions around the thresholds of the three predicates
BoundaryCompletions ==
    { Padded(lead, Body(opens, fill, closes), trail) :
        lead \in 0..MaxPad, trail \in 0..MaxPad,
        opens \in 0..MaxBraces, closes \in 0..MaxBraces,
        fill \in 0..MaxFill }

Samples(tasks, completions) ==
    { [task_id |-> t, completion |-> c] : t \in tasks, c \in completions }

RECURSIVE SeqsUpTo(_, _)
SeqsUpTo(S, n) ==
    IF n = 0 THEN { <<>> }
    ELSE LET shorter == SeqsUpTo(S, n - 1)
         IN shorter \cup { Append(q, x) : q \in shorter, x \in S }

Inputs ==
    SeqsUpTo(Samples(TaskIds, CoreCompletions), MaxSamples)
        \cup { <<r>> : r \in Samples({ <<"t", "2">> }, BoundaryCompletions) }

InitFilter ==
    /\ \E input \in Inputs : fs = [p \in {SampleFile} |-> input]
    /\ pc = "filter_call"
    /\ frame = NoFrame
    /\ stdout = <<>>
    /\ calls = <<>>
    /\ host = None
    /\ probes = 0
    /\ resolved = <<>>
    /\ MainIdle
    /\ UtilIdle

\* the caller runs the filter on the sample file or on a file a run returned
NextFilter ==
    \/ /\ Len(calls) < MaxRuns
       /\ \E sample_file \in DOMAIN fs : FilterEnter(sample_file)
    \/ FilterFirstPass
    \/ FilterSecondPass
    \/ FilterReport

SpecFilter == InitFilter /\ [][NextFilter]_vars

---------------------------------------------------------------------------
(* _resolve_sandbox_mode *)

\* "auto"
S_auto ==
    << "a", "u", "t", "o" >>

\* "firejail"
S_firejail ==
    << "f", "i", "r", "e", "j", "a", "i", "l" >>

\* "none"
S_none ==
    << "n", "o", "n", "e" >>

\* "Using sandbox mode: firejail"
MsgUsingFirejail ==
    << "U", "s", "i", "n", "g", " ", "s", "a", "n", "d", "b", "o", "x", " ",
       "m", "o", "d", "e", ":", " ", "f", "i", "r", "e", "j", "a", "i", "l" >>

\* "WARNING: Running without a sandbox executes arbitrary code on the host."
MsgUnsandboxed ==
    << "W", "A", "R", "N", "I", "N", "G", ":", " ", "R", "u", "n", "n", "i",
       "n", "g", " ", "w", "i", "t", "h", "o", "u", "t", " ", "a", " ", "s",
       "a", "n", "d", "b", "o", "x", " ", "e", "x", "e", "c", "u", "t", "e",
       "s", " ", "a", "r", "b", "i", "t", "r", "a", "r", "y", " ", "c", "o",
       "d", "e", " ", "o", "n", " ", "t", "h", "e", " ", "h", "o", "s", "t",
       "." >>

\* "Auto-detected Firejail; enabling sandboxed evaluation."
MsgAutoFirejail ==
    << "A", "u", "t", "o", "-", "d", "e", "t", "e", "c", "t", "e", "d", " ",
       "F", "i", "r", "e", "j", "a", "i", "l", ";", " ", "e", "n", "a", "b",
       "l", "i", "n", "g", " ", "s", "a", "n", "d", "b", "o", "x", "e", "d",
       " ", "e", "v", "a", "l", "u", "a", "t", "i", "o", "n", "." >>

\* "WARNING: Firejail not found; proceeding without sandbox protection (mode: none)."
MsgAutoNone ==
    << "W", "A", "R", "N", "I", "N", "G", ":", " ", "F", "i", "r", "e", "j",
       "a", "i", "l", " ", "n", "o", "t", " ", "f", "o", "u", "n", "d", ";",
       " ", "p", "r", "o", "c", "e", "e", "d", "i", "n", "g", " ", "w", "i",
       "t", "h", "o", "u", "t", " ", "s", "a", "n", "d", "b", "o", "x", " ",
       "p", "r", "o", "t", "e", "c", "t", "i", "o", "n", " ", "(", "m", "o",
       "d", "e", ":", " ", "n", "o", "n", "e", ")", "." >>

\* "Invalid sandbox mode '"
ErrInvalidHead ==
    << "I", "n", "v", "a", "l", "i", "d", " ", "s", "a", "n", "d", "b", "o",
       "x", " ", "m", "o", "d", "e", " ", "'" >>

\* "'. Choose 'firejail', 'none', or 'auto'."
ErrInvalidTail ==
    << "'", ".", " ", "C", "h", "o", "o", "s", "e", " ", "'", "f", "i", "r",
       "e", "j", "a", "i", "l", "'", ",", " ", "'", "n", "o", "n", "e", "'",
       ",", " ", "o", "r", " ", "'", "a", "u", "t", "o", "'", "." >>

\* "Firejail requested but not available. Install Firejail or use --sandbox-mode none."
ErrUnavailable ==
    << "F", "i", "r", "e", "j", "a", "i", "l", " ", "r", "e", "q", "u", "e",
       "s", "t", "e", "d", " ", "b", "u", "t", " ", "n", "o", "t", " ", "a",
       "v", "a", "i", "l", "a", "b", "l", "e", ".", " ", "I", "n", "s", "t",
       "a", "l", "l", " ", "F", "i", "r", "e", "j", "a", "i", "l", " ", "o",
       "r", " ", "u", "s", "e", " ", "-", "-", "s", "a", "n", "d", "b", "o",
       "x", "-", "m", "o", "d", "e", " ", "n", "o", "n", "e", "." >>

\* "/usr/bin/firejail"
FirejailPath ==
    << "/", "u", "s", "r", "/", "b", "i", "n", "/", "f", "i", "r", "e", "j",
       "a", "i", "l" >>

\* truth value of an optional string: None and "" are false
Truthy(opt) == opt # None /\ opt[1] # <<>>

\* str(x) inside an f-string: None prints as "None"
Format(opt) == IF opt = None THEN <<"N", "o", "n", "e">> ELSE opt[1]

Returned(mode, messages, probed) ==
    [kind |-> "return", mode |-> Some(mode), messages |-> messages,
     exc |-> "", error |-> <<>>, probed |-> probed]

Raised(exc, error, probed) ==
    [kind |-> "raise", mode |-> None, messages |-> <<>>,
     exc |-> exc, error |-> error, probed |-> probed]

\* [mutant] auto-detection does not look at the host
AutoBranch_Optimistic(which) ==
    [kind |-> "return", mode |-> Some(S_firejail),
     messages |-> <<MsgAutoFirejail>>, exc |-> "", error |-> <<>>,
     probed |-> 1]

\* [mutant] auto-detection insists on firejail
AutoBranch_Strict(which) ==
    IF Truthy(which)
    THEN [kind |-> "return", mode |-> Some(S_firejail),
          messages |-> <<MsgAutoFirejail>>, exc |-> "", error |-> <<>>,
          probed |-> 1]
    ELSE [kind |-> "raise", mode |-> None, messages |-> <<>>,
          exc |-> "RuntimeError", error |-> ErrUnavailable, probed |-> 1]

\* lines 83-91: auto-detection
AutoBranch(which) ==
    IF Truthy(which)
    THEN Returned(S_firejail, <<MsgAutoFirejail>>, 1)
    ELSE Returned(S_none, <<MsgAutoNone>>, 1)

\* [mutant] an unavailable firejail falls back to running unsandboxed
FirejailBranch_Fallback(which) == AutoBranch(which)

\* lines 71-77: firejail was asked for
FirejailBranch(which) ==
    IF ~Truthy(which)
    THEN Raised("RuntimeError", ErrUnavailable, 1)
    ELSE Returned(S_firejail, <<MsgUsingFirejail>>, 1)

\* [mutant] the warning is not appended
NoneBranch_Silent == Returned(S_none, <<>>, 0)

\* lines 79-81: no sandbox was asked for
NoneBranch == Returned(S_none, <<MsgUnsandboxed>>, 0)

\* lines 61-64
Normalize(requested) ==
    LET normalized == IF Truthy(requested) THEN Some(Lower(requested[1])) ELSE None
    IN IF normalized = Some(S_auto) THEN None ELSE normalized

\* _resolve_sandbox_mode(requested) on a host where shutil.which("firejail")
\* answers `which`
ResolveSandboxMode(requested, which) ==
    LET normalized == Normalize(requested)
    IN IF normalized \notin {None, Some(S_firejail), Some(S_none)}
       THEN Raised("ValueError",
                   ErrInvalidHead \o Format(requested) \o ErrInvalidTail, 0)
       ELSE IF normalized = Some(S_firejail) THEN FirejailBranch(which)
       ELSE IF normalized = Some(S_none) THEN NoneBranch
       ELSE AutoBranch(which)

\* the strings a caller asks for: "", "auto", "AUTO", "Auto", "firejail", "Firejail", "FIREJAIL",
\* "none", "None", "NONE", "invalid", "docker", "firejail ", "non"
RequestStrings ==
    {
      << >>,
      << "a", "u", "t", "o" >>,
      << "A", "U", "T", "O" >>,
      << "A", "u", "t", "o" >>,
      << "f", "i", "r", "e", "j", "a", "i", "l" >>,
      << "F", "i", "r", "e", "j", "a", "i", "l" >>,
      << "F", "I", "R", "E", "J", "A", "I", "L" >>,
      << "n", "o", "n", "e" >>,
      << "N", "o", "n", "e" >>,
      << "N", "O", "N", "E" >>,
      << "i", "n", "v", "a", "l", "i", "d" >>,
      << "d", "o", "c", "k", "e", "r" >>,
      << "f", "i", "r", "e", "j", "a", "i", "l", " " >>,
      << "n", "o", "n" >>
    }

Requests == {None} \cup { Some(text) : text \in RequestStrings }

Hosts == {None, Some(FirejailPath)}

\* a caller resolves a requested mode and sees the result or the exception
ResolveCall(requested) ==
    /\ pc = "resolve_call"
    /\ Len(resolved) < MaxCalls
    /\ LET result == ResolveSandboxMode(requested, host)
       IN /\ resolved' = Append(resolved,
                [requested |-> requested, which |-> host, result |-> result])
          /\ probes' = probes + result.probed
    /\ UNCHANGED <<utilVars, pc, host, filterVars, mainVars>>

\* between two calls firejail is installed on the host, or removed from it
HostChange(which) ==
    /\ pc = "resolve_call"
    /\ which # host
    /\ host' = which
    /\ UNCHANGED <<utilVars, pc, probes, resolved, filterVars, mainVars>>

InitResolver ==
    /\ host \in Hosts
    /\ probes = 0
    /\ resolved = <<>>
    /\ pc = "resolve_call"
    /\ fs = << >>
    /\ frame = NoFrame
    /\ stdout = <<>>
    /\ calls = <<>>
    /\ MainIdle
    /\ UtilIdle

NextResolver ==
    \/ \E requested \in Requests : ResolveCall(requested)
    \/ \E which \in Hosts : HostChange(which)

SpecResolver == InitResolver /\ [][NextResolver]_vars

---------------------------------------------------------------------------
(* main(): the command line, the sandbox decision and the two phases *)

\* "--sandbox-mode", choices=["firejail", "none", "auto"], default="auto"
Choices == {S_firejail, S_none, S_auto}

\* the values --sandbox-mode is given on the command line (None: not given)
CliSandboxModes ==
    { None, Some(S_firejail), Some(S_none), Some(S_auto),
      Some(<< "F", "I", "R", "E", "J", "A", "I", "L" >>),
      Some(<< "i", "n", "v", "a", "l", "i", "d" >>),
      Some(<<>>) }

Argvs ==
    [ given : {TRUE},
      sandbox_mode : CliSandboxModes,
      policy_only : BOOLEAN, no_policy_only : BOOLEAN,
      skip_base : BOOLEAN, skip_finetuned : BOOLEAN ]

\* [mutant] --policy-only overrides --no-policy-only
ParseArgs_PolicyWins(cmdline) ==
    IF cmdline.sandbox_mode # None /\ cmdline.sandbox_mode[1] \notin Choices
    THEN [kind |-> "exit", status |-> 2]
    ELSE [kind |-> "namespace",
          sandbox_mode |-> IF cmdline.sandbox_mode = None
                           THEN S_auto ELSE cmdline.sandbox_mode[1],
          policy_only |-> cmdline.policy_only,
          no_policy_only |-> cmdline.no_policy_only /\ ~cmdline.policy_only,
          skip_base |-> cmdline.skip_base,
          skip_finetuned |-> cmdline.skip_finetuned]

\* [mutant] the skip options are parsed and then forgotten
ParseArgs_IgnoreSkips(cmdline) ==
    IF cmdline.sandbox_mode # None /\ cmdline.sandbox_mode[1] \notin Choices
    THEN [kind |-> "exit", status |-> 2]
    ELSE [kind |-> "namespace",
          sandbox_mode |-> IF cmdline.sandbox_mode = None
                           THEN S_auto ELSE cmdline.sandbox_mode[1],
          policy_only |-> cmdline.policy_only,
          no_policy_only |-> cmdline.no_policy_only,
          skip_base |-> FALSE,
          skip_finetuned |-> FALSE]

\* parser.parse_args(): a value outside the choices ends the process with
\* status 2; an option that is not given takes its default
ParseArgs(cmdline) ==
    IF cmdline.sandbox_mode # None /\ cmdline.sandbox_mode[1] \notin Choices
    THEN [kind |-> "exit", status |-> 2]
    ELSE [kind |-> "namespace",
          sandbox_mode |-> IF cmdline.sandbox_mode = None
                           THEN S_auto ELSE cmdline.sandbox_mode[1],
          policy_only |-> cmdline.policy_only,
          no_policy_only |-> cmdline.no_policy_only,
          skip_base |-> cmdline.skip_base,
          skip_finetuned |-> cmdline.skip_finetuned]

OutputDir == << "humaneval_results" >>

\* an uncaught exception ends the process with status 1
Uncaught(exc) == [status |-> Some(1), exc |-> exc]
Exited(status) == [status |-> Some(status), exc |-> "SystemExit"]

\* lines 1020-1100: the arguments, the seed, the device, the output directory
MainParseArgs ==
    /\ pc = "main_parse"
    /\ LET parsed == ParseArgs(argv)
       IN IF parsed.kind = "exit"
          THEN /\ exit' = Exited(parsed.status)
               /\ pc' = "exited"
               /\ UNCHANGED <<args, outputs>>
          ELSE /\ args' = Some(parsed)
               /\ outputs' = outputs \cup {OutputDir}
               /\ pc' = "main_resolve"
               /\ UNCHANGED exit
    /\ UNCHANGED <<utilVars, filterVars, resolverVars, argv, sandbox_mode, all_results,
                   run, events>>

\* [mutant] a failed resolution falls back to running unsandboxed
ResolveOrExit_Unsandboxed(result) ==
    IF result.kind = "raise"
    THEN [next |-> "main_modes", sandbox_mode |-> Some(S_none),
          printed |-> <<>>]
    ELSE [next |-> "main_modes", sandbox_mode |-> result.mode,
          printed |-> [k \in 1..Len(result.messages) |->
                          [kind |-> "message", text |-> result.messages[k]]]]

\* lines 1103-1109: the messages are printed, or the error is and the
\* process exits with status 1
ResolveOrExit(result) ==
    IF result.kind = "raise"
    THEN [next |-> "exited", sandbox_mode |-> None,
          printed |-> << [kind |-> "error_resolving", text |-> result.error] >>]
    ELSE [next |-> "main_modes", sandbox_mode |-> result.mode,
          printed |-> [k \in 1..Len(result.messages) |->
                          [kind |-> "message", text |-> result.messages[k]]]]

\* lines 1102-1109
MainResolve ==
    /\ pc = "main_resolve"
    /\ LET result == ResolveSandboxMode(Some(args[1].sandbox_mode), host)
           then == ResolveOrExit(result)
       IN /\ resolved' = Append(resolved,
                [requested |-> Some(args[1].sandbox_mode), which |-> host,
                 result |-> result])
          /\ probes' = probes + result.probed
          /\ stdout' = stdout \o then.printed
          /\ sandbox_mode' = then.sandbox_mode
          /\ pc' = then.next
          /\ exit' = IF then.next = "exited" THEN Exited(1) ELSE exit
    /\ UNCHANGED <<utilVars, fs, frame, calls, host, argv, args, all_results, run,
                   events, outputs>>

Phases == {"no-policy", "policy"}

\* lines 1111-1119: at least one phase must be active
MainModes ==
    /\ pc = "main_modes"
    /\ LET run_no_policy == ~args[1].policy_only
           run_policy == ~args[1].no_policy_only
       IN IF ~run_no_policy /\ ~run_policy
          THEN /\ stdout' = Append(stdout, [kind |-> "nothing_to_do"])
               /\ exit' = Exited(0)
               /\ pc' = "exited"
               /\ UNCHANGED all_results
          ELSE /\ all_results' = [p \in Phases |-> None]
               /\ pc' = "main_phase1"
               /\ UNCHANGED <<stdout, exit>>
    /\ UNCHANGED <<utilVars, fs, frame, calls, resolverVars, argv, args, sandbox_mode,
                   run, events, outputs>>

\* [mutant] the first phase enforces the policy, the second does not
EnforcePolicy_Swapped(phase) == phase = 1

\* enforce_policy=False in the first call (line 1133), True in the second
\* (line 1158)
EnforcePolicy(phase) == phase = 2

\* line 928
PolicyLabel(enforce_policy) == IF enforce_policy THEN "policy" ELSE "no-policy"

\* lines 958 and 981
SamplesName(variant) ==
    IF variant = "base" THEN "base_model_samples.jsonl"
    ELSE "finetuned_model_samples.jsonl"

\* one step of generation or evaluation, with the phase and the model
\* variant it belongs to
Event(op, detail) ==
    [op |-> op, phase |-> run.policy_label, variant |-> run.at,
     detail |-> detail]

\* lines 1122-1142 and 1147-1167 with lines 928-954: an active phase calls
\* run_evaluation_mode, a disabled one is passed over
MainPhase ==
    /\ pc \in {"main_phase1", "main_phase2"}
    /\ LET phase == IF pc = "main_phase1" THEN 1 ELSE 2
           active == IF phase = 1 THEN ~args[1].policy_only
                     ELSE ~args[1].no_policy_only
           enforce_policy == EnforcePolicy(phase)
           mode_output_dir == OutputDir \o << "/", PolicyLabel(enforce_policy) >>
       IN IF active
          THEN /\ run' = [at |-> "base",
                          caller |-> phase,
                          enforce_policy |-> enforce_policy,
                          policy_label |-> PolicyLabel(enforce_policy),
                          sandbox_mode |-> sandbox_mode,
                          mode_output_dir |-> mode_output_dir,
                          sample_file |-> <<>>,
                          problems_with_samples |-> {},
                          engine |-> None,
                          base_results |-> None,
                          finetuned_results |-> None]
               /\ outputs' = outputs \cup {mode_output_dir}
               /\ events' = Append(events,
                    [op |-> "phase_begin",
                     phase |-> PolicyLabel(enforce_policy),
                     variant |-> "", detail |-> None])
               /\ pc' = "mode_variant"
          ELSE /\ pc' = IF phase = 1 THEN "main_phase2" ELSE "main_summary"
               /\ UNCHANGED <<run, outputs, events>>
    /\ UNCHANGED <<utilVars, filterVars, resolverVars, argv, args, sandbox_mode,
                   all_results, exit>>

\* lines 957-958 and 980-981: a model variant is generated and evaluated
\* unless it is skipped
ModeVariant ==
    /\ pc = "mode_variant"
    /\ LET skip == IF run.at = "base" THEN args[1].skip_base
                   ELSE args[1].skip_finetuned
       IN IF ~skip
          THEN /\ run' = [run EXCEPT
                            !.sample_file = run.mode_output_dir
                                \o << "/", SamplesName(run.at) >>,
                            !.problems_with_samples = {},
                            !.engine = None]
               /\ events' = Append(events, Event("generate_begin", None))
               /\ pc' = "generate_load"
          ELSE /\ run' = [run EXCEPT
                            !.at = IF run.at = "base" THEN "finetuned"
                                   ELSE "finish"]
               /\ pc' = IF run.at = "base" THEN "mode_variant"
                        ELSE "mode_finish"
               /\ UNCHANGED events
    /\ UNCHANGED <<utilVars, filterVars, resolverVars, argv, args, sandbox_mode,
                   all_results, exit, outputs>>

---------------------------------------------------------------------------
(* generate_samples_for_model: what it leaves in the sample file *)

\* the problems of the benchmark, in the order read_problems() lists them
Problems == << <<"t", "1", "0">>, <<"t", "2">> >>

\* a completion the filter keeps
GoodCompletion == Body(1, 8, 1)

\* what the generation loop writes: a sample for every problem, an empty
\* completion for the first problem, or no sample for the first problem (its
\* batch and its fallback both failed)
RawGenerations ==
    { << [task_id |-> Problems[1], completion |-> GoodCompletion],
         [task_id |-> Problems[2], completion |-> GoodCompletion] >>,
      << [task_id |-> Problems[1], completion |-> <<>>],
         [task_id |-> Problems[2], completion |-> GoodCompletion] >>,
      << [task_id |-> Problems[2], completion |-> GoodCompletion] >> }

\* line 654
PlaceholderCompletion ==
    << "/", "/", " ", "P", "l", "a", "c", "e", "h", "o", "l", "d", "e",
       "r", ":", " ", "g", "e", "n", "e", "r", "a", "t", "i", "o", "n",
       " ", "f", "a", "i", "l", "e", "d", " ", "f", "o", "r", " ", "t",
       "h", "i", "s", " ", "p", "r", "o", "b", "l", "e", "m" >>

\* the orders in which "for task_id in missing_problems" may visit a set
Orders(S) ==
    { q \in [1..Cardinality(S) -> S] :
        \A a, b \in 1..Cardinality(S) : a # b => q[a] # q[b] }

\* [mutant] the missing problems are only reported
Placeholders_None(order) == <<>>

\* lines 651-658: one placeholder sample per missing problem
Placeholders(order) ==
    [k \in 1..Len(order) |->
        [task_id |-> order[k], completion |-> PlaceholderCompletion]]

\* jsonlines.open(path, mode="a"): records are added at the end
AppendFile(files, path, records) ==
    [p \in DOMAIN files \cup {path} |->
        IF p = path
        THEN (IF p \in DOMAIN files THEN files[p] ELSE <<>>) \o records
        ELSE files[p]]

\* lines 156-464: the model is loaded, or the failure is printed and raised
GenerateLoad ==
    /\ pc = "generate_load"
    /\ \E loaded \in BOOLEAN :
        IF loaded
        THEN /\ pc' = "generate_loop"
             /\ UNCHANGED <<stdout, events, exit>>
        ELSE /\ stdout' = Append(stdout, [kind |-> "load_failed"])
             /\ events' = Append(events, Event("generate_raise", None))
             /\ exit' = Uncaught("LoadError")
             /\ pc' = "exited"
    /\ UNCHANGED <<utilVars, fs, frame, calls, resolverVars, argv, args, sandbox_mode,
                   all_results, run, outputs>>

\* lines 466-636: the sample file is opened with mode="w" and the samples
\* that could be generated are written to it
GenerateLoop ==
    /\ pc = "generate_loop"
    /\ \E raw \in RawGenerations :
        /\ fs' = WriteFile(fs, run.sample_file, raw)
        /\ run' = [run EXCEPT !.problems_with_samples =
                        { raw[k].task_id : k \in 1..Len(raw) }]
    /\ pc' = "generate_validate"
    /\ UNCHANGED <<utilVars, frame, stdout, calls, resolverVars, argv, args,
                   sandbox_mode, all_results, events, exit, outputs>>

\* lines 638-665: problems without a sample are reported and given a
\* placeholder sample
GenerateValidate ==
    /\ pc = "generate_validate"
    /\ LET all_problem_ids == { Problems[k] : k \in 1..Len(Problems) }
           missing_problems == all_problem_ids \ run.problems_with_samples
       IN IF missing_problems # {}
          THEN \E order \in Orders(missing_problems) :
                /\ fs' = AppendFile(fs, run.sample_file, Placeholders(order))
                /\ stdout' = stdout \o
                    << [kind |-> "coverage_warning",
                        missing |-> Sorted(missing_problems)],
                       [kind |-> "placeholders_added",
                        count |-> Len(Placeholders(order))] >>
                /\ run' = [run EXCEPT !.problems_with_samples =
                              @ \cup { Placeholders(order)[k].task_id :
                                         k \in 1..Len(Placeholders(order)) }]
          ELSE UNCHANGED <<fs, stdout, run>>
    /\ events' = Append(events,
          Event("generate_end", [raw |-> fs[run.sample_file],
                                 samples |-> fs'[run.sample_file]]))
    /\ pc' = "evaluate_enter"
    /\ UNCHANGED <<utilVars, frame, calls, resolverVars, argv, args, sandbox_mode,
                   all_results, exit, outputs>>

---------------------------------------------------------------------------
(* evaluate_samples: the filter, the engine, the cleanup *)

\* a metrics mapping, in percent
Metrics == [k \in {"pass@1"} |-> 50]

\* the empty mapping
NoMetrics == << >>

\* what evaluate_functional_correctness may do
EngineOutcomes ==
    { [kind |-> "return", results |-> Metrics],
      [kind |-> "return", results |-> NoMetrics],
      [kind |-> "raise", results |-> NoMetrics] }

\* [mutant] the engine is always given the ".filtered" path
EngineArguments_AlwaysFiltered(filtered_file, sandbox, enforce_policy) ==
    [sample_file |-> IF filtered_file[Len(filtered_file)] = ".filtered"
                     THEN filtered_file
                     ELSE filtered_file \o << ".filtered" >>,
     problem_file |-> None,
     language |-> "rust", sandbox_mode |-> sandbox,
     enforce_policy |-> enforce_policy]

\* [mutant] the engine is always run unsandboxed
EngineArguments_Unsandboxed(filtered_file, sandbox, enforce_policy) ==
    [sample_file |-> filtered_file, problem_file |-> None,
     language |-> "rust", sandbox_mode |-> Some(S_none),
     enforce_policy |-> enforce_policy]

\* lines 809-818: the arguments of the engine call
EngineArguments(filtered_file, sandbox, enforce_policy) ==
    [sample_file |-> filtered_file, problem_file |-> None,
     language |-> "rust", sandbox_mode |-> sandbox,
     enforce_policy |-> enforce_policy]

\* [mutant] an engine failure is reported as "no results"
EvaluateSamples_Swallow(outcome) ==
    IF outcome.kind = "raise"
    THEN [kind |-> "return", results |-> None]
    ELSE [kind |-> "return", results |-> Some(outcome.results)]

\* lines 808-832: the results are returned; an exception is printed and
\* raised again
EvaluateSamples(outcome) ==
    IF outcome.kind = "raise"
    THEN [kind |-> "raise", results |-> None]
    ELSE [kind |-> "return", results |-> Some(outcome.results)]

\* os.remove(path)
RemoveFile(files, path) == [p \in DOMAIN files \ {path} |-> files[p]]

\* lines 778-805: the header is printed and the filter is called
EvalEnter ==
    /\ pc = "evaluate_enter"
    /\ stdout' = stdout \o
          << [kind |-> "sandbox_mode", text |-> run.sandbox_mode] >>
          \o (IF run.sandbox_mode = Some(S_none)
              THEN << [kind |-> "unsandboxed_warning"] >> ELSE <<>>)
    /\ events' = Append(events, Event("evaluate_begin", None))
    /\ pc' = "filter_call"
    /\ UNCHANGED <<utilVars, fs, frame, calls, resolverVars, argv, args, sandbox_mode,
                   all_results, run, exit, outputs>>

\* line 806
EvalFilter ==
    /\ run # NoRun
    /\ FilterEnter(run.sample_file)

\* lines 809-818: the engine is called on the file the filter returned
EvalEngine ==
    /\ pc = "evaluate_engine"
    /\ LET filtered_file == calls[Len(calls)].returned
           arguments == EngineArguments(filtered_file, run.sandbox_mode,
                                        run.enforce_policy)
       IN \E outcome \in EngineOutcomes :
            /\ events' = events \o
                  << Event("engine_call",
                           Some([arguments |-> arguments,
                                 samples |-> fs[arguments.sample_file]])),
                     Event(IF outcome.kind = "raise" THEN "engine_raise"
                           ELSE "engine_return", None) >>
            /\ run' = [run EXCEPT !.engine = Some(outcome)]
    /\ pc' = "evaluate_return"
    /\ UNCHANGED <<utilVars, filterVars, resolverVars, argv, args, sandbox_mode,
                   all_results, exit, outputs>>

\* lines 820-832 with lines 968-977 and 991-1000: the filtered file is
\* removed and the results are kept by run_evaluation_mode, or the exception
\* leaves evaluate_samples, run_evaluation_mode and main
EvalReturn ==
    /\ pc = "evaluate_return"
    /\ LET filtered_file == calls[Len(calls)].returned
           done == EvaluateSamples(run.engine[1])
       IN IF done.kind = "return"
          THEN /\ fs' = IF filtered_file # run.sample_file
                        THEN RemoveFile(fs, filtered_file) ELSE fs
               /\ run' = [run EXCEPT
                            !.base_results =
                                IF run.at = "base" THEN done.results ELSE @,
                            !.finetuned_results =
                                IF run.at = "finetuned" THEN done.results ELSE @,
                            !.at = IF run.at = "base" THEN "finetuned"
                                   ELSE "finish"]
               /\ stdout' = Append(stdout,
                    [kind |-> "results", variant |-> run.at,
                     results |-> done.results])
               /\ events' = Append(events, Event("evaluate_end", done.results))
               /\ pc' = IF run.at = "base" THEN "mode_variant"
                        ELSE "mode_finish"
               /\ UNCHANGED exit
          ELSE /\ stdout' = Append(stdout, [kind |-> "evaluation_failed"])
               /\ events' = Append(events, Event("evaluate_raise", None))
               /\ exit' = Uncaught("EngineFault")
               /\ pc' = "exited"
               /\ UNCHANGED <<fs, run>>
    /\ UNCHANGED <<utilVars, frame, calls, resolverVars, argv, args, sandbox_mode,
                   all_results, outputs>>

\* Python truth of "dict | None": None and the empty mapping are false
TruthyResults(results) == results # None /\ DOMAIN results[1] # {}

\* lines 1002-1013 with lines 1143-1144 and 1168-1169: metrics.json, the
\* comparison report when both variants have results, and the return to main
ModeFinish ==
    /\ pc = "mode_finish"
    /\ outputs' = outputs
          \cup { run.mode_output_dir \o << "/", "metrics.json" >> }
          \cup (IF TruthyResults(run.base_results)
                    /\ TruthyResults(run.finetuned_results)
                THEN { run.mode_output_dir \o << "/", "comparison_report.md" >> }
                ELSE {})
    /\ all_results' = [all_results EXCEPT ![run.policy_label] =
                          Some([base |-> run.base_results,
                                finetuned |-> run.finetuned_results])]
    /\ events' = Append(events,
          [op |-> "phase_end", phase |-> run.policy_label, variant |-> "",
           detail |-> None])
    /\ run' = NoRun
    /\ pc' = IF run.caller = 1 THEN "main_phase2" ELSE "main_summary"
    /\ UNCHANGED <<utilVars, filterVars, resolverVars, argv, args, sandbox_mode, exit>>

---------------------------------------------------------------------------
(* main(): the combined summary and the metadata *)

\* lines 1183-1203: the sections written to combined_summary.md; the
\* subscripts of lines 1185 and 1196 raise TypeError on a phase that is None
SummaryOf(results) ==
    IF results["no-policy"] = None
    THEN [kind |-> "raise", line |-> 1185]
    ELSE IF results["policy"] = None
    THEN [kind |-> "raise", line |-> 1196]
    ELSE [kind |-> "written", line |-> 1205]

\* lines 1171-1205
MainSummary ==
    /\ pc = "main_summary"
    /\ IF all_results["no-policy"] # None \/ all_results["policy"] # None
       THEN /\ outputs' = outputs
                  \cup { OutputDir \o << "/", "combined_summary.md" >> }
            /\ IF SummaryOf(all_results).kind = "raise"
               THEN /\ exit' = Uncaught("TypeError")
                    /\ pc' = "exited"
                    /\ UNCHANGED stdout
               ELSE /\ stdout' = Append(stdout, [kind |-> "summary_saved"])
                    /\ pc' = "main_metadata"
                    /\ UNCHANGED exit
       ELSE /\ pc' = "main_metadata"
            /\ UNCHANGED <<outputs, stdout, exit>>
    /\ UNCHANGED <<utilVars, fs, frame, calls, resolverVars, argv, args, sandbox_mode,
                   all_results, run, events>>

\* lines 1207-1219: eval_metadata.json and the closing lines; main returns
MainMetadata ==
    /\ pc = "main_metadata"
    /\ outputs' = outputs \cup { OutputDir \o << "/", "eval_metadata.json" >> }
    /\ stdout' = stdout \o
          << [kind |-> "metadata_written",
              results_present |->
                  [p \in Phases |-> all_results[p] # None]],
             [kind |-> "complete"] >>
    /\ exit' = [status |-> Some(0), exc |-> ""]
    /\ pc' = "exited"
    /\ UNCHANGED <<utilVars, fs, frame, calls, resolverVars, argv, args, sandbox_mode,
                   all_results, run, events>>

\* the process starts on some command line, on a host with or without
\* firejail, in an empty output directory
Init ==
    /\ argv \in Argvs
    /\ host \in Hosts
    /\ pc = "main_parse"
    /\ fs = << >>
    /\ frame = NoFrame
    /\ stdout = <<>>
    /\ calls = <<>>
    /\ probes = 0
    /\ resolved = <<>>
    /\ args = None
    /\ sandbox_mode = None
    /\ all_results = NoResults
    /\ run = NoRun
    /\ events = <<>>
    /\ exit = Running
    /\ outputs = {}
    /\ UtilIdle

Next ==
    \/ MainParseArgs
    \/ MainResolve
    \/ MainModes
    \/ MainPhase
    \/ ModeVariant
    \/ GenerateLoad
    \/ GenerateLoop
    \/ GenerateValidate
    \/ EvalEnter
    \/ EvalFilter
    \/ FilterFirstPass
    \/ FilterSecondPass
    \/ FilterReport
    \/ EvalEngine
    \/ EvalReturn
    \/ ModeFinish
    \/ MainSummary
    \/ MainMetadata

Spec == Init /\ [][Next]_vars

---------------------------------------------------------------------------
(* _run_cmd *)

MaxCmds == 2        \* _run_cmd calls of one caller

\* what the command leaves behind: whether the shell could be started, the
\* exit status, the bytes on standard output and whether they decode as text
ExitStatuses == {0, 1, 127}

Outputs ==
    { <<>>,
      << "\n" >>,
      << "h", "e", "l", "l", "o" >>,
      << "h", "e", "l", "l", "o", "\n" >>,
      << " ", " ", "h", "e", "l", "l", "o", " ", " ", "\n" >>,
      << "\t", "a", " ", "b", "\n", "\n" >> }

Processes ==
    [ started : {TRUE}, returncode : ExitStatuses, output : Outputs,
      decodable : BOOLEAN ]
    \cup { [started |-> FALSE, returncode |-> 0, output |-> <<>>,
            decodable |-> TRUE] }

\* [mutant] the exit status is not looked at
CheckOutput_Unchecked(process) ==
    IF ~process.started THEN [kind |-> "raise", exc |-> "OSError", value |-> <<>>]
    ELSE IF ~process.decodable
    THEN [kind |-> "raise", exc |-> "UnicodeDecodeError", value |-> <<>>]
    ELSE [kind |-> "return", exc |-> "", value |-> process.output]

\* subprocess.check_output(cmd, shell=True, text=True, stderr=DEVNULL)
CheckOutput(process) ==
    IF ~process.started THEN [kind |-> "raise", exc |-> "OSError", value |-> <<>>]
    ELSE IF ~process.decodable
    THEN [kind |-> "raise", exc |-> "UnicodeDecodeError", value |-> <<>>]
    ELSE IF process.returncode # 0
    THEN [kind |-> "raise", exc |-> "CalledProcessError", value |-> <<>>]
    ELSE [kind |-> "return", exc |-> "", value |-> process.output]

\* lines 48-54: the stripped output, or None on any Exception
RunCmd(process) ==
    LET out == CheckOutput(process)
    IN IF out.kind = "raise"
       THEN [kind |-> "return", value |-> None]
       ELSE [kind |-> "return", value |-> Some(Strip(out.value))]

\* a caller runs a command and sees what _run_cmd gives back
RunCmdCall(process) ==
    /\ pc = "run_cmd_call"
    /\ Len(commands) < MaxCmds
    /\ commands' = Append(commands,
          [process |-> process, result |-> RunCmd(process)])
    /\ UNCHANGED <<pc, checked, filterVars, resolverVars, mainVars>>

InitRunCmd ==
    /\ pc = "run_cmd_call"
    /\ fs = << >>
    /\ frame = NoFrame
    /\ stdout = <<>>
    /\ calls = <<>>
    /\ host = None
    /\ probes = 0
    /\ resolved = <<>>
    /\ MainIdle
    /\ UtilIdle

NextRunCmd == \E process \in Processes : RunCmdCall(process)

SpecRunCmd == InitRunCmd /\ [][NextRunCmd]_vars

---------------------------------------------------------------------------
(* validate_ecosystem.py: parse_version and check_version *)

MaxChecks == 1      \* check_version calls of one caller

\* the version strings that are compared:
\* "2.1.0", "2.1", "2.10.0", "2.9.0", "2.2.0", "2.0.9", "2", "3",
\* "10.0.0", "2.1.0rc1", "2.1.0.dev1", "2.1.x", "2..0", ""
Versions ==
    { << "2", ".", "1", ".", "0" >>,
      << "2", ".", "1" >>,
      << "2", ".", "1", "0", ".", "0" >>,
      << "2", ".", "9", ".", "0" >>,
      << "2", ".", "2", ".", "0" >>,
      << "2", ".", "0", ".", "9" >>,
      << "2" >>,
      << "3" >>,
      << "1", "0", ".", "0", ".", "0" >>,
      << "2", ".", "1", ".", "0", "r", "c", "1" >>,
      << "2", ".", "1", ".", "0", ".", "d", "e", "v", "1" >>,
      << "2", ".", "1", ".", "x" >>,
      << "2", ".", ".", "0" >>,
      <<>> }

Digits == << "0", "1", "2", "3", "4", "5", "6", "7", "8", "9" >>

IsDigit(c) == \E n \in 1..Len(Digits) : Digits[n] = c

DigitValue(c) == (CHOOSE n \in 1..Len(Digits) : Digits[n] = c) - 1

\* v.split(sep): the pieces between the separators, empty ones included
RECURSIVE SplitFrom(_, _, _)
SplitFrom(text, sep, piece) ==
    IF text = <<>> THEN << piece >>
    ELSE IF Head(text) = sep
         THEN << piece >> \o SplitFrom(Tail(text), sep, <<>>)
         ELSE SplitFrom(Tail(text), sep, Append(piece, Head(text)))

Split(text, sep) == SplitFrom(text, sep, <<>>)

\* [:3]
FirstThree(pieces) == SubSeq(pieces, 1, IF Len(pieces) < 3 THEN Len(pieces) ELSE 3)

\* int(x) on a decimal numeral; anything else is a ValueError
IsNumeral(piece) ==
    /\ piece # <<>>
    /\ \A k \in 1..Len(piece) : IsDigit(piece[k])

RECURSIVE IntOf(_)
IntOf(piece) ==
    IF piece = <<>> THEN 0
    ELSE IntOf(SubSeq(piece, 1, Len(piece) - 1)) * 10
            + DigitValue(piece[Len(piece)])

\* lines 31-33
parse_version(v) ==
    LET pieces == FirstThree(Split(v, "."))
    IN IF \A k \in 1..Len(pieces) : IsNumeral(pieces[k])
       THEN [kind |-> "return",
             value |-> [k \in 1..Len(pieces) |-> IntOf(pieces[k])]]
       ELSE [kind |-> "raise", value |-> <<>>]

\* a >= b on tuples of integers: the first difference decides, and a proper
\* prefix is smaller than the longer tuple
RECURSIVE TupleGE(_, _)
TupleGE(a, b) ==
    IF b = <<>> THEN TRUE
    ELSE IF a = <<>> THEN FALSE
    ELSE IF Head(a) # Head(b) THEN Head(a) > Head(b)
    ELSE TupleGE(Tail(a), Tail(b))

\* lines 36-41
check_version(installed, required) ==
    LET have == parse_version(installed)
        need == parse_version(required)
    IN IF have.kind = "raise" \/ need.kind = "raise"
       THEN [kind |-> "return", value |-> FALSE]
       ELSE [kind |-> "return", value |-> TupleGE(have.value, need.value)]

\* a caller compares an installed version with a required one
CheckVersionCall(installed, required) ==
    /\ pc = "check_version_call"
    /\ Len(checked) < MaxChecks
    /\ checked' = Append(checked,
          [installed |-> installed, required |-> required,
           result |-> check_version(installed, required)])
    /\ UNCHANGED <<pc, commands, filterVars, resolverVars, mainVars>>

InitVersion ==
    /\ pc = "check_version_call"
    /\ fs = << >>
    /\ frame = NoFrame
    /\ stdout = <<>>
    /\ calls = <<>>
    /\ host = None
    /\ probes = 0
    /\ resolved = <<>>
    /\ MainIdle
    /\ UtilIdle

NextVersion ==
    \E installed \in Versions, required \in Versions :
        CheckVersionCall(installed, required)

SpecVersion == InitVersion /\ [][NextVersion]_vars

---------------------------------------------------------------------------
(* Properties of _filter_bad_samples, stated over the completed calls *)

TaskSet(records) == { records[k].task_id : k \in 1..Len(records) }

OfTask(records, t) == SelectSeq(records, LAMBDA r : r.task_id = t)

Occurrences(records, r) == Cardinality({ k \in 1..Len(records) : records[k] = r })

Trimmed(sample) == Strip(sample.completion)

BraceDelta(text) == Abs(Count(text, "{") - Count(text, "}"))

\* the three predicates as the specification words them
PassesAll(sample) ==
    /\ Len(Trimmed(sample)) >= 10
    /\ BraceDelta(Trimmed(sample)) <= 3

\* the first predicate a sample matches, in the order empty, short, braces
FirstReason(sample) ==
    IF Len(Trimmed(sample)) = 0 THEN "empty"
    ELSE IF Len(Trimmed(sample)) < 10 THEN "short"
    ELSE IF BraceDelta(Trimmed(sample)) > 3 THEN "braces"
    ELSE "none"

Survivors(records, t) == SelectSeq(OfTask(records, t), PassesAll)

Rejected(records) == SelectSeq(records, LAMBDA r : ~PassesAll(r))

AllRejectedTasks(records) ==
    { t \in TaskSet(records) : Survivors(records, t) = <<>> }

\* tasks appear in ascending (non-decreasing) task_id order
TasksAscending(records) ==
    \A k \in 1..(Len(records) - 1) :
        ~StrLess(records[k + 1].task_id, records[k].task_id)

RECURSIVE IsSubsequence(_, _)
IsSubsequence(a, b) ==
    IF a = <<>> THEN TRUE
    ELSE IF b = <<>> THEN FALSE
    ELSE IF Head(a) = Head(b) THEN IsSubsequence(Tail(a), Tail(b))
    ELSE IsSubsequence(a, Tail(b))

Call(i) == calls[i]
CallIds == 1..Len(calls)

\* C1: coverage invariant. For every completed call on a non-empty sample
\* file, the task_ids of the sample set handed on to evaluation are exactly
\* the task_ids of the raw input.
C1_Coverage ==
    \A i \in CallIds :
        Call(i).input # <<>> =>
            TaskSet(Call(i).handed) = TaskSet(Call(i).input)

\* a call that backfilled one task and kept survivors of another
C1_Witness ==
    \E i \in CallIds :
        /\ AllRejectedTasks(Call(i).input) # {}
        /\ AllRejectedTasks(Call(i).input) # TaskSet(Call(i).input)
        /\ Call(i).returned = Call(i).filtered_file

\* C2: per-task emission rule. The records written for a task are exactly
\* its samples that pass all three predicates, in arrival order, when one
\* passes; otherwise exactly the task's first raw sample. No other task is
\* written.
C2_PerTaskEmission ==
    \A i \in CallIds :
        /\ TaskSet(Call(i).written) \subseteq TaskSet(Call(i).input)
        /\ \A t \in TaskSet(Call(i).input) :
              OfTask(Call(i).written, t) =
                  IF Survivors(Call(i).input, t) # <<>>
                  THEN Survivors(Call(i).input, t)
                  ELSE << OfTask(Call(i).input, t)[1] >>

\* a task whose first sample was rejected and a later one survived, next to
\* a task whose samples were all rejected
C2_Witness ==
    \E i \in CallIds : \E t, u \in TaskSet(Call(i).input) :
        LET mine == OfTask(Call(i).input, t)
        IN /\ ~PassesAll(mine[1])
           /\ Survivors(Call(i).input, t) # <<>>
           /\ Survivors(Call(i).input, u) = <<>>
           /\ Call(i).returned = Call(i).filtered_file

\* C3: threshold boundaries. A completion of trimmed length exactly 10 is
\* kept and one of trimmed length 9 is rejected; with a length of at least
\* 10, a brace difference of exactly 3 is kept and one of 4 is rejected,
\* whichever brace is in excess.
C3_Thresholds ==
    \A i \in CallIds : \A k \in 1..Len(Call(i).input) :
        LET sample == Call(i).input[k]
            length == Len(Trimmed(sample))
            delta == BraceDelta(Trimmed(sample))
            kept == Call(i).problem_samples[sample.task_id].kept
            isKept == Occurrences(kept, sample) = Occurrences(Call(i).input, sample)
            isRejected == Occurrences(kept, sample) = 0
        IN /\ (length = 10 /\ delta <= 3) => isKept
           /\ length = 9 => isRejected
           /\ (length >= 10 /\ delta = 3) => isKept
           /\ (length >= 10 /\ delta = 4) => isRejected

\* a kept completion of trimmed length exactly 10 whose '}' exceed its '{'
\* by exactly 3
C3_Witness ==
    \E i \in CallIds : \E k \in 1..Len(Call(i).input) :
        LET sample == Call(i).input[k]
        IN /\ Len(Trimmed(sample)) = 10
           /\ Count(Trimmed(sample), "}") - Count(Trimmed(sample), "{") = 3
           /\ Call(i).problem_samples[sample.task_id].kept = <<sample>>

\* C4: the predicates are applied in the order empty, short, braces and stop
\* at the first match: filtered_count is the number of rejected samples, and
\* each task's per-reason counts are the numbers of its samples whose first
\* matching predicate is that reason, so they sum to its rejected samples.
ReasonCount(call, t, reason) ==
    DictGet(call.problem_samples[t].filtered_reasons, reason, 0)

C4_ReasonsOnce ==
    \A i \in CallIds :
        /\ Call(i).filtered_count = Len(Rejected(Call(i).input))
        /\ \A t \in TaskSet(Call(i).input) :
              LET mine == OfTask(Call(i).input, t)
                  reasons == Call(i).problem_samples[t].filtered_reasons
              IN /\ DictKeys(reasons) \subseteq {"empty", "short", "braces"}
                 /\ \A reason \in {"empty", "short", "braces"} :
                       ReasonCount(Call(i), t, reason) =
                           Len(SelectSeq(mine, LAMBDA r : FirstReason(r) = reason))
                 /\ ReasonCount(Call(i), t, "empty") + ReasonCount(Call(i), t, "short")
                       + ReasonCount(Call(i), t, "braces") = Len(Rejected(mine))

\* a task with an empty sample (which is also shorter than 10), a short one
\* and a brace-mismatched one, each counted once under its first reason
C4_Witness ==
    \E i \in CallIds : \E t \in TaskSet(Call(i).input) :
        /\ ReasonCount(Call(i), t, "empty") = 1
        /\ ReasonCount(Call(i), t, "short") = 1
        /\ ReasonCount(Call(i), t, "braces") = 1
        /\ Call(i).filtered_count = 3

\* the returned sample set lists tasks in ascending task_id order and, within
\* each task, samples in arrival order
SortedByTask(call) ==
    /\ TasksAscending(call.handed)
    /\ \A t \in TaskSet(call.handed) :
          IsSubsequence(OfTask(call.handed, t), OfTask(call.input, t))

\* C5 as claimed: for every input, including inputs from which no sample is
\* rejected, the returned sample set lists tasks in ascending task_id order
\* and, within each task, samples in arrival order.
C5_AlwaysSorted ==
    \A i \in CallIds : SortedByTask(Call(i))

\* C5 as amended: when at least one sample is rejected the returned sample
\* set lists tasks in ascending task_id order and, within each task, samples
\* in arrival order; when no sample is rejected it is the input file itself,
\* in arrival order, whether or not its tasks are sorted.
C5_SortedWhenFiltered ==
    \A i \in CallIds :
        /\ Call(i).filtered_count > 0 => SortedByTask(Call(i))
        /\ Call(i).filtered_count = 0 =>
              /\ Call(i).returned = Call(i).sample_file
              /\ Call(i).handed = Call(i).input

\* an input whose tasks arrive out of order, with a rejected sample, from
\* which samples of two tasks are returned
C5_Witness ==
    \E i \in CallIds :
        /\ Call(i).filtered_count > 0
        /\ ~TasksAscending(Call(i).input)
        /\ Cardinality(TaskSet(Call(i).handed)) >= 2
        /\ Len(Call(i).handed) = 3

\* C6: idempotence. Filtering a sample set in which every sample passes all
\* predicates yields a sample set identical to its input.
C6_Idempotent ==
    \A i \in CallIds :
        (\A k \in 1..Len(Call(i).input) : PassesAll(Call(i).input[k]))
            => Call(i).handed = Call(i).input

\* the filter's own output, nothing backfilled, is filtered again; its tasks
\* are not in the order they arrived in
C6_Witness ==
    /\ Len(calls) = 2
    /\ Call(1).filtered_count > 0
    /\ AllRejectedTasks(Call(1).input) = {}
    /\ ~TasksAscending(Call(1).input)
    /\ Call(2).sample_file = Call(1).returned
    /\ Call(2).handed = Call(1).handed
    /\ Len(Call(2).handed) >= 2

\* C7: determinism. Two runs of the filter on identical inputs produce
\* identical output sequences and the same reported counts.
C7_Deterministic ==
    \A i, j \in CallIds :
        Call(i).input = Call(j).input =>
            /\ Call(i).handed = Call(j).handed
            /\ Call(i).written = Call(j).written
            /\ Call(i).filtered_count = Call(j).filtered_count
            /\ Call(i).total_count = Call(j).total_count
            /\ Call(i).final_count = Call(j).final_count
            /\ Call(i).printed = Call(j).printed

\* the same sample file is filtered twice; the second run finds the filtered
\* file the first run left behind
C7_Witness ==
    /\ Len(calls) = 2
    /\ Call(1).sample_file = Call(2).sample_file
    /\ Call(1).filtered_count > 0
    /\ Len(Call(1).handed) >= 2

\* C8: aggregate counts. total_count is the number of input records,
\* filtered_count the number of rejected records, and whenever one was
\* rejected the reported final count is the number of records written to the
\* filtered file: total_count - filtered_count + the number of tasks whose
\* samples were all rejected.
C8_Counts ==
    \A i \in CallIds :
        /\ Call(i).total_count = Len(Call(i).input)
        /\ Call(i).filtered_count = Len(Rejected(Call(i).input))
        /\ Call(i).filtered_count > 0 =>
              /\ Call(i).final_count = Some(Len(Call(i).written))
              /\ [kind |-> "evaluating", final_count |-> Len(Call(i).written)]
                    \in { Call(i).printed[k] : k \in 1..Len(Call(i).printed) }
              /\ Len(Call(i).written) =
                    Call(i).total_count - Call(i).filtered_count
                        + Cardinality(AllRejectedTasks(Call(i).input))
        /\ Call(i).filtered_count = 0 => Call(i).final_count = None

\* a call that rejected samples of two tasks, one of which kept a survivor
C8_Witness ==
    \E i \in CallIds :
        /\ Call(i).filtered_count = 2
        /\ Cardinality(AllRejectedTasks(Call(i).input)) = 1
        /\ Call(i).final_count = Some(2)

---------------------------------------------------------------------------
(* Properties of _resolve_sandbox_mode, stated over the completed calls *)

Resolved(i) == resolved[i]
ResolveIds == 1..Len(resolved)

\* the request is `word`, in any letter case
Asks(call, word) ==
    call.requested # None /\ Lower(call.requested[1]) = word

ConfigurationError(result) ==
    /\ result.kind = "raise"
    /\ result.exc \in {"ValueError", "RuntimeError"}
    /\ result.mode = None

HasWarning(messages) ==
    \E k \in 1..Len(messages) :
        Contains(messages[k], <<"W", "A", "R", "N", "I", "N", "G">>)

MentionsFirejail(messages) ==
    \E k \in 1..Len(messages) : Contains(Lower(messages[k]), S_firejail)

\* C9: 'firejail' requested. The call fails with a configuration error and
\* returns no mode when firejail is not installed on the host; when it is
\* installed the call resolves to 'firejail' with an informational message
\* that mentions firejail.
C9_FirejailRequested ==
    \A i \in ResolveIds :
        Asks(Resolved(i), S_firejail) =>
            IF Resolved(i).which = None
            THEN ConfigurationError(Resolved(i).result)
            ELSE /\ Resolved(i).result.kind = "return"
                 /\ Resolved(i).result.mode = Some(S_firejail)
                 /\ MentionsFirejail(Resolved(i).result.messages)
                 /\ ~HasWarning(Resolved(i).result.messages)

\* firejail is asked for on a host without it and, once it is installed,
\* asked for again
C9_Witness ==
    \E i, j \in ResolveIds :
        /\ i < j
        /\ Resolved(i).requested = Some(S_firejail)
        /\ Resolved(i).which = None
        /\ Resolved(i).result.kind = "raise"
        /\ Resolved(j).requested = Some(S_firejail)
        /\ Resolved(j).which # None
        /\ Resolved(j).result.kind = "return"

\* C10: 'none' requested. The call resolves to 'none' whether or not
\* firejail is installed, and returns at least one message carrying the
\* WARNING marker.
C10_NoneRequested ==
    \A i \in ResolveIds :
        Asks(Resolved(i), S_none) =>
            /\ Resolved(i).result.kind = "return"
            /\ Resolved(i).result.mode = Some(S_none)
            /\ HasWarning(Resolved(i).result.messages)

\* 'none' is asked for on a host with firejail and on a host without it
C10_Witness ==
    \E i, j \in ResolveIds :
        /\ Resolved(i).requested = Some(S_none)
        /\ Resolved(i).which = None
        /\ Resolved(j).requested = Some(S_none)
        /\ Resolved(j).which # None
        /\ Resolved(i).result.mode = Some(S_none)
        /\ Resolved(j).result.mode = Some(S_none)

\* the words the resolver accepts
LegalModes == {S_firejail, S_none, S_auto}

\* C11: 'auto' or unset. The call never fails; it resolves to 'firejail'
\* with an informational message and no warning when firejail is on the
\* host, and to 'none' with a WARNING message when it is not.
C11_AutoOrUnset ==
    \A i \in ResolveIds :
        (Resolved(i).requested = None \/ Asks(Resolved(i), S_auto)) =>
            /\ Resolved(i).result.kind = "return"
            /\ Len(Resolved(i).result.messages) >= 1
            /\ IF Resolved(i).which # None
               THEN /\ Resolved(i).result.mode = Some(S_firejail)
                    /\ ~HasWarning(Resolved(i).result.messages)
               ELSE /\ Resolved(i).result.mode = Some(S_none)
                    /\ HasWarning(Resolved(i).result.messages)

\* an unset mode is resolved on a host without firejail and 'auto' on a host
\* with it
C11_Witness ==
    \E i, j \in ResolveIds :
        /\ Resolved(i).requested = None
        /\ Resolved(i).which = None
        /\ Resolved(i).result.mode = Some(S_none)
        /\ Resolved(j).requested = Some(S_auto)
        /\ Resolved(j).which # None
        /\ Resolved(j).result.mode = Some(S_firejail)

Quoted(text) == <<"'">> \o text \o <<"'">>

\* C12: invalid value. For a requested value other than firejail, none,
\* auto or unset the call fails with a configuration error whose message
\* names the value as given and the three legal choices, and it neither
\* probes the host nor returns a mode.
C12_InvalidValue ==
    \A i \in ResolveIds :
        (Resolved(i).requested # None
            /\ Lower(Resolved(i).requested[1]) \notin LegalModes) =>
            /\ ConfigurationError(Resolved(i).result)
            /\ Contains(Resolved(i).result.error, Quoted(Resolved(i).requested[1]))
            /\ \A word \in LegalModes :
                  Contains(Resolved(i).result.error, Quoted(word))
            /\ Resolved(i).result.probed = 0

\* C13: mode strings are matched case-insensitively, and every supplied
\* string that is not, ignoring case, 'firejail', 'none' or 'auto' -- the
\* empty string included -- is a configuration error and is never resolved
\* to a mode.
C13_CaseInsensitiveOrError ==
    \A i \in ResolveIds :
        Resolved(i).requested # None =>
            IF Lower(Resolved(i).requested[1]) \in LegalModes
            THEN Resolved(i).result =
                    ResolveSandboxMode(Some(Lower(Resolved(i).requested[1])),
                                       Resolved(i).which)
            ELSE /\ ConfigurationError(Resolved(i).result)
                 /\ Resolved(i).result.mode = None

---------------------------------------------------------------------------
(* Properties of main(), stated over the run *)

EventIds == 1..Len(events)

\* the steps of one operation, of one phase, of one model variant
Steps(op, phase, variant) ==
    { k \in EventIds : /\ events[k].op = op
                       /\ events[k].phase = phase
                       /\ events[k].variant = variant }

OfPhase(phase) == { k \in EventIds : events[k].phase = phase }

Variants == {"base", "finetuned"}

\* the command line asks for a sandbox that cannot be had: a string that is
\* not a mode, or firejail on a host without it
SandboxConfigurationError ==
    /\ argv.sandbox_mode # None
    /\ \/ Lower(argv.sandbox_mode[1]) \notin LegalModes
       \/ Lower(argv.sandbox_mode[1]) = S_firejail /\ host = None

\* C14: a sandbox configuration error (invalid mode string, or firejail
\* requested but unavailable) is surfaced before any work: the process exits
\* with a nonzero status and no generation, filtering or evaluation step is
\* started in that run.
C14_ConfigErrorBeforeWork ==
    SandboxConfigurationError =>
        /\ pc \in {"main_parse", "main_resolve", "exited"}
        /\ pc = "exited" => exit.status \in {Some(1), Some(2)}
        /\ events = <<>>
        /\ calls = <<>> /\ frame = NoFrame
        /\ run = NoRun
        /\ fs = << >>

\* firejail was asked for on a host without it and the process has exited
C14_Witness ==
    /\ argv.sandbox_mode = Some(S_firejail)
    /\ host = None
    /\ Len(resolved) = 1
    /\ resolved[1].result.kind = "raise"
    /\ pc = "exited"
    /\ exit.status = Some(1)

\* C15: the phases never overlap and the policy phase starts only after the
\* no-policy phase (if active) has finished; within a phase the base
\* model's generation and evaluation both complete before the fine-tuned
\* model's generation begins, and each variant's evaluation starts only
\* after that variant's generation has finished.
C15_Ordering ==
    /\ \A k \in EventIds :
          (events[k].op = "phase_begin" /\ events[k].phase = "policy") =>
              /\ \A j \in OfPhase("no-policy") : j < k
              /\ ~args[1].policy_only =>
                    \E j \in 1..(k - 1) :
                        /\ events[j].op = "phase_end"
                        /\ events[j].phase = "no-policy"
    /\ \A phase \in Phases :
          \A k \in Steps("generate_begin", phase, "finetuned") :
              /\ \A j \in OfPhase(phase) :
                    events[j].variant = "base" => j < k
              /\ ~args[1].skip_base =>
                    /\ \E j \in Steps("generate_end", phase, "base") : j < k
                    /\ \E j \in Steps("evaluate_end", phase, "base") : j < k
    /\ \A phase \in Phases, variant \in Variants :
          \A k \in Steps("evaluate_begin", phase, variant) :
              /\ \E j \in Steps("generate_end", phase, variant) : j < k
              /\ \A j \in Steps("generate_begin", phase, variant)
                        \cup Steps("generate_end", phase, variant) : j < k

\* both phases ran both variants to the end
C15_Witness ==
    /\ pc = "exited"
    /\ exit.status = Some(0)
    /\ \A phase \in Phases, variant \in Variants :
          Steps("evaluate_end", phase, variant) # {}

\* a generation or an evaluation has raised
Failures == { k \in EventIds : events[k].op \in {"generate_raise", "evaluate_raise"} }

PhaseActive(phase) ==
    IF phase = "no-policy" THEN ~args[1].policy_only
    ELSE ~args[1].no_policy_only

\* C16: when generation or evaluation raises in one phase or for one model
\* variant, the other phase still runs and the failed slot is recorded as
\* None; the run is not aborted.
C16_FailureIsolation ==
    (pc = "exited" /\ Failures # {}) =>
        /\ exit.exc = ""
        /\ \A phase \in Phases :
              PhaseActive(phase) =>
                  \E k \in OfPhase(phase) : events[k].op = "phase_end"

\* C17: for every combination of skipped phases and skipped variants in
\* which at least one phase ran, the combined summary and the metadata are
\* written without raising.
C17_ReportingTolerates ==
    (pc = "exited" /\ \E phase \in Phases : all_results # NoResults
                                            /\ all_results[phase] # None
                   /\ Failures = {}) =>
        /\ exit = [status |-> Some(0), exc |-> ""]
        /\ OutputDir \o << "/", "eval_metadata.json" >> \in outputs

\* C18: when the engine raises during evaluate_samples the exception
\* reaches the caller; it is not swallowed and not turned into a metrics
\* mapping, and no result is recorded for that model variant.
C18_EngineFaultPropagates ==
    \A k \in EventIds :
        events[k].op = "engine_raise" =>
            /\ \/ pc = "evaluate_return"
               \/ /\ pc = "exited"
                  /\ exit = Uncaught("EngineFault")
                  /\ events[Len(events)].op = "evaluate_raise"
            /\ Steps("evaluate_end", events[k].phase, events[k].variant) = {}
            /\ run.at = events[k].variant
            /\ run.base_results = None \/ events[k].variant # "base"
            /\ run.finetuned_results = None
            /\ all_results[events[k].phase] = None

\* the engine raised for the fine-tuned model after the base model's results
\* were kept, and the exception has left main
C18_Witness ==
    /\ pc = "exited"
    /\ exit = Uncaught("EngineFault")
    /\ run.at = "finetuned"
    /\ run.base_results = Some(Metrics)
    /\ \E k \in EventIds : events[k].op = "engine_raise"

EngineCalls == { k \in EventIds : events[k].op = "engine_call" }

\* C19: the sandbox mode is resolved exactly once per run, before any
\* phase; the same value is passed to every evaluation call of both phases
\* and both variants, and it never changes during the run.
C19_ResolvedOnce ==
    /\ Len(resolved) <= 1
    /\ pc \notin {"main_parse", "main_resolve", "exited"} =>
          /\ Len(resolved) = 1
          /\ resolved[1].result.kind = "return"
          /\ sandbox_mode = resolved[1].result.mode
    /\ events # <<>> =>
          /\ Len(resolved) = 1
          /\ sandbox_mode = resolved[1].result.mode
          /\ sandbox_mode \in {Some(S_firejail), Some(S_none)}
    /\ run # NoRun => run.sandbox_mode = sandbox_mode
    /\ \A k \in EngineCalls :
          events[k].detail[1].arguments.sandbox_mode = resolved[1].result.mode

\* four evaluation calls were made under firejail
C19_Witness ==
    /\ Cardinality(EngineCalls) = 4
    /\ sandbox_mode = Some(S_firejail)
    /\ \A phase \in Phases, variant \in Variants :
          Steps("engine_call", phase, variant) # {}

Generated == { k \in EventIds : events[k].op = "generate_end" }

ProblemSet == { Problems[k] : k \in 1..Len(Problems) }

Unsampled(k) == ProblemSet \ TaskSet(events[k].detail.raw)

\* C20 as stated: a task that generation left with zero raw samples is only
\* logged; no sample is added for it and it is absent from the generated
\* sample set.
C20_MissingStaysAbsent ==
    \A k \in Generated :
        /\ events[k].detail.samples = events[k].detail.raw
        /\ \A t \in Unsampled(k) : t \notin TaskSet(events[k].detail.samples)

Warned(t) ==
    \E i \in 1..Len(stdout) :
        /\ stdout[i].kind = "coverage_warning"
        /\ \E j \in 1..Len(stdout[i].missing) : stdout[i].missing[j] = t

\* C20: a task that generation left with zero raw samples is logged and
\* given one placeholder sample after the raw samples, so every problem is
\* present in the generated sample set; tasks with raw samples get none.
C20_MissingGetsPlaceholder ==
    \A k \in Generated :
        LET raw == events[k].detail.raw
            samples == events[k].detail.samples
        IN /\ TaskSet(samples) = ProblemSet
           /\ Len(samples) = Len(raw) + Cardinality(Unsampled(k))
           /\ SubSeq(samples, 1, Len(raw)) = raw
           /\ \A t \in Unsampled(k) :
                 /\ Warned(t)
                 /\ \E i \in (Len(raw) + 1)..Len(samples) :
                       samples[i] = [task_id |-> t,
                                     completion |-> PlaceholderCompletion]

\* a generation that produced nothing for the first problem has finished
C20_Witness ==
    \E k \in Generated :
        /\ Unsampled(k) = { Problems[1] }
        /\ Len(events[k].detail.samples) = 2

\* what the command line disables
PhaseSkipped(phase) ==
    IF phase = "no-policy" THEN argv.policy_only ELSE argv.no_policy_only

VariantSkipped(variant) ==
    IF variant = "base" THEN argv.skip_base ELSE argv.skip_finetuned

\* the result slot of a model variant in the entry main keeps for a phase
Slot(phase, variant) ==
    IF variant = "base" THEN all_results[phase][1].base
    ELSE all_results[phase][1].finetuned

\* main has passed both phases without an exception
PhasesDone ==
    \/ pc \in {"main_summary", "main_metadata"}
    \/ pc = "exited" /\ exit.exc \in {"", "TypeError"}

\* C23: each phase and each model variant can be skipped independently. For
\* a skipped phase nothing is generated or evaluated and all_results[phase]
\* stays None; for a skipped variant of an active phase nothing is generated
\* or evaluated and its slot is None; the ones that are not skipped run.
C23_Skippable ==
    /\ \A phase \in Phases :
          PhaseSkipped(phase) =>
              /\ OfPhase(phase) = {}
              /\ all_results # NoResults => all_results[phase] = None
    /\ \A phase \in Phases, variant \in Variants :
          VariantSkipped(variant) =>
              /\ \A k \in OfPhase(phase) : events[k].variant # variant
              /\ (all_results # NoResults /\ all_results[phase] # None) =>
                    Slot(phase, variant) = None
    /\ \A phase \in Phases, variant \in Variants :
          (all_results # NoResults /\ all_results[phase] # None
              /\ ~VariantSkipped(variant)) =>
              /\ Steps("generate_end", phase, variant) # {}
              /\ Steps("engine_call", phase, variant) # {}
              /\ Slot(phase, variant) # None
    /\ \A phase \in Phases :
          (PhasesDone /\ ~PhaseSkipped(phase)) => all_results[phase] # None

\* only the policy phase ran, only for the fine-tuned model
C23_Witness ==
    /\ argv.policy_only /\ ~argv.no_policy_only
    /\ argv.skip_base /\ ~argv.skip_finetuned
    /\ PhasesDone
    /\ all_results["no-policy"] = None
    /\ Slot("policy", "base") = None
    /\ Slot("policy", "finetuned") = Some(Metrics)

\* C24: whenever _resolve_sandbox_mode returns normally the mode is exactly
\* 'firejail' or 'none' (never None, 'auto' or the request as it was
\* spelled), at least one message comes with it, and 'firejail' is returned
\* only on a host that has firejail.
C24_ResultRange ==
    \A i \in ResolveIds :
        Resolved(i).result.kind = "return" =>
            /\ Resolved(i).result.mode \in {Some(S_firejail), Some(S_none)}
            /\ Len(Resolved(i).result.messages) >= 1
            /\ \A k \in 1..Len(Resolved(i).result.messages) :
                  Len(Resolved(i).result.messages[k]) > 0
            /\ Resolved(i).result.mode = Some(S_firejail) =>
                  Truthy(Resolved(i).which)

\* 'FIREJAIL' was resolved on a host with firejail and 'auto' on one without
C24_Witness ==
    \E i, j \in ResolveIds :
        /\ Resolved(i).requested = Some(<< "F", "I", "R", "E", "J", "A", "I", "L" >>)
        /\ Resolved(i).result.mode = Some(S_firejail)
        /\ Resolved(j).requested = Some(S_auto)
        /\ Resolved(j).which = None
        /\ Resolved(j).result.mode = Some(S_none)

\* the engine calls made up to and including step k
EngineCallsUpTo(k) == { j \in EngineCalls : j <= k }

\* the _filter_bad_samples call that belongs to the engine call at step k
FilterOf(k) == calls[Cardinality(EngineCallsUpTo(k))]

SampleFileOf(phase, variant) ==
    OutputDir \o << "/", phase >> \o << "/", SamplesName(variant) >>

SubMultiset(part, whole) ==
    \A k \in 1..Len(part) :
        Occurrences(part, part[k]) <= Occurrences(whole, part[k])

\* C27: _filter_bad_samples never modifies the input sample file; every
\* record it emits is an unaltered input record (the completion is emitted
\* untrimmed); the output is a sub-multiset of the input, and identical
\* completions that pass are all emitted.
C27_FilterFrame ==
    \A i \in CallIds :
        /\ fs[Call(i).sample_file] = Call(i).input
        /\ Call(i).filtered_file # Call(i).sample_file
        /\ SubMultiset(Call(i).written, Call(i).input)
        /\ SubMultiset(Call(i).handed, Call(i).input)
        /\ \A j \in 1..Len(Call(i).input) :
              PassesAll(Call(i).input[j]) =>
                  Occurrences(Call(i).written, Call(i).input[j])
                      = Occurrences(Call(i).input, Call(i).input[j])

\* a completion with surrounding whitespace came twice, something else was
\* rejected, and both copies were emitted untrimmed
C27_Witness ==
    \E i \in CallIds : \E j \in 1..Len(Call(i).input) :
        /\ Call(i).filtered_count > 0
        /\ Trimmed(Call(i).input[j]) # Call(i).input[j].completion
        /\ Occurrences(Call(i).input, Call(i).input[j]) = 2
        /\ Occurrences(Call(i).handed, Call(i).input[j]) = 2

\* the sandbox mode has been resolved without an error
ResolutionSucceeded ==
    /\ Len(resolved) = 1
    /\ resolved[1].result.kind = "return"

\* C28: with both phases disabled (--policy-only and --no-policy-only
\* together) and a successful sandbox resolution, main exits with status 0
\* without any generation, filtering or evaluation step and without writing
\* a summary, metrics or metadata file.
C28_NothingToDo ==
    (argv.policy_only /\ argv.no_policy_only /\ ResolutionSucceeded) =>
        /\ pc \in {"main_modes", "exited"}
        /\ pc = "exited" => exit = Exited(0)
        /\ events = <<>>
        /\ calls = <<>> /\ frame = NoFrame
        /\ run = NoRun
        /\ fs = << >>
        /\ outputs = {OutputDir}

\* both phases were disabled and the process has exited
C28_Witness ==
    /\ argv.policy_only /\ argv.no_policy_only
    /\ ResolutionSucceeded
    /\ pc = "exited"
    /\ exit = Exited(0)
    /\ stdout[Len(stdout)].kind = "nothing_to_do"

\* the progress lines of a call that report a percentage
PercentLines(call) ==
    { k \in 1..Len(call.printed) : call.printed[k].kind = "filtered_out" }

\* C29: on an empty input and on an input from which no sample is rejected,
\* _filter_bad_samples completes, prints no percentage (which is computed
\* only when filtered_count > 0, hence never with total_count = 0) and
\* returns the original sample file path, so evaluation sees exactly the raw
\* samples.
C29_DegenerateInputs ==
    \A i \in CallIds :
        /\ \A k \in PercentLines(Call(i)) :
              /\ Call(i).printed[k].total_count > 0
              /\ Call(i).filtered_count > 0
        /\ (Call(i).input = <<>> \/ Rejected(Call(i).input) = <<>>) =>
              /\ Call(i).filtered_count = 0
              /\ Call(i).total_count = Len(Call(i).input)
              /\ PercentLines(Call(i)) = {}
              /\ Call(i).returned = Call(i).sample_file
              /\ Call(i).handed = Call(i).input
              /\ fs[Call(i).sample_file] = Call(i).input

\* the filter has run on an empty sample file
C29_Witness ==
    \E i \in CallIds :
        /\ Call(i).input = <<>>
        /\ Call(i).total_count = 0
        /\ Call(i).returned = Call(i).sample_file
        /\ Call(i).printed = <<>>

---------------------------------------------------------------------------
(* Properties of _run_cmd *)

CommandIds == 1..Len(commands)

AllWhitespace(text) == \A k \in 1..Len(text) : text[k] \in Whitespace

\* `inner` is `text` without its leading and trailing whitespace
IsStripOf(inner, text) ==
    /\ inner = <<>> \/ (inner[1] \notin Whitespace
                        /\ inner[Len(inner)] \notin Whitespace)
    /\ \E a, b \in 0..Len(text) :
          /\ a + b <= Len(text)
          /\ AllWhitespace(SubSeq(text, 1, a))
          /\ AllWhitespace(SubSeq(text, Len(text) - b + 1, Len(text)))
          /\ inner = SubSeq(text, a + 1, Len(text) - b)

Succeeded(process) ==
    process.started /\ process.decodable /\ process.returncode = 0

\* C22: _run_cmd never raises. It returns the command's standard output
\* without leading and trailing whitespace when the command succeeds, and
\* None when the command fails or cannot be run.
C22_RunCmd ==
    \A i \in CommandIds :
        /\ commands[i].result.kind = "return"
        /\ IF Succeeded(commands[i].process)
           THEN /\ commands[i].result.value # None
                /\ IsStripOf(commands[i].result.value[1],
                             commands[i].process.output)
           ELSE commands[i].result.value = None

\* one command printed padded text and succeeded, another one failed
C22_Witness ==
    \E i, j \in CommandIds :
        /\ Succeeded(commands[i].process)
        /\ commands[i].process.output
              = << " ", " ", "h", "e", "l", "l", "o", " ", " ", "\n" >>
        /\ commands[i].result.value = Some(<< "h", "e", "l", "l", "o" >>)
        /\ commands[j].process.returncode = 127
        /\ commands[j].result.value = None

---------------------------------------------------------------------------
(* Properties of check_version *)

CheckIds == 1..Len(checked)

\* every component of the version string is a decimal numeral
AllNumeric(v) ==
    \A k \in 1..Len(Split(v, ".")) : IsNumeral(Split(v, ".")[k])

\* major, minor and patch of a numeric version; a missing one counts as 0
Component(v, k) ==
    IF k <= Len(Split(v, ".")) THEN IntOf(Split(v, ".")[k]) ELSE 0

\* major.minor.patch of `installed` is at least that of `required`
Meets(installed, required) ==
    \/ Component(installed, 1) > Component(required, 1)
    \/ /\ Component(installed, 1) = Component(required, 1)
       /\ \/ Component(installed, 2) > Component(required, 2)
          \/ /\ Component(installed, 2) = Component(required, 2)
             /\ Component(installed, 3) >= Component(required, 3)

\* C30: check_version(installed, required) never raises; it returns True
\* exactly when the major.minor.patch numbers of the installed version are
\* greater than or equal to the required ones, compared as numbers ('2.10.0'
\* meets '2.9.0', '2.1' meets '2.1.0'), and False when a version string has
\* a component that is not a number.
C30_MeetsRequirement ==
    \A i \in CheckIds :
        /\ checked[i].result.kind = "return"
        /\ checked[i].result.value =
              IF AllNumeric(checked[i].installed) /\ AllNumeric(checked[i].required)
              THEN Meets(checked[i].installed, checked[i].required)
              ELSE FALSE

====
